---- MODULE Spec2Model ----
(***************************************************************************)
(* A model of the dashboard's two pieces of logic:                         *)
(*   - lib/ai.ts      (src/lib/types.ts): heuristic grouping, the cached   *)
(*     remote summarization with retries, and the bounded worker pool;     *)
(*   - lib/csvPosts.ts (src/README.md): the CSV parser and ingestion.       *)
(* Strings that the code scans character by character are sequences of     *)
(* one-character strings; free text that the code only matches against     *)
(* word patterns is a sequence of phrases <<kind, value>>.                  *)
(***************************************************************************)
EXTENDS Integers, Sequences, FiniteSets, TLC

(***************************************************************************)
(* Bounds of the model.                                                    *)
(***************************************************************************)
MaxThreads == 2       \* longest post list handed to buildGroupedAIPerspective
MaxConc == 2          \* largest AI_OPENAI_CONCURRENCY setting explored
MaxAttemptsCfg == 2   \* largest AI_OPENAI_MAX_RETRIES setting explored by Spec
MaxRequests == 2      \* page renders that may be in progress at once
MaxPoolItems == 3     \* most buckets handed to one worker pool by SpecPool
MaxCsvRows == 3       \* data rows of a generated table
MaxFieldLen == 3      \* longest content of a generated quoted field
MaxTextLen == 4       \* longest free CSV text handed to parseCsv
MaxRowFields == 4     \* most fields of the data row of a ragged table
MaxTagPosts == 3      \* most posts handed to buildAIPerspective
MaxBackoffAttempts == 7  \* largest attempt limit of SpecBackoff

(***************************************************************************)
(* Program constants.                                                      *)
(***************************************************************************)
DefaultGroupMax == 8      \* AI_GROUP_MAX ?? 8
DefaultConcurrency == 2   \* AI_OPENAI_CONCURRENCY ?? 2
DefaultMaxAttempts == 5   \* AI_OPENAI_MAX_RETRIES ?? 5
SampleLimit == 28         \* items.slice(0, 28)
SampleBodyLimit == 700    \* body.slice(0, 700)
TakeawayLimit == 120      \* .slice(0, 120)
HeuristicPostLimit == 40  \* items.slice(0, 40)
MinModelGroup == 2        \* items.length < 2 drops a model bucket
BackoffBaseMs == 600      \* 600 * 2 ** (attempt - 1)
BackoffCapMs == 30000     \* Math.min(30_000, ...)
JitterMaxMs == 250        \* jitter(250)

Model == "gpt-4o-mini"    \* process.env.OPENAI_MODEL ?? "gpt-4o-mini"

(***************************************************************************)
(* Generic sequence helpers (Array.prototype.slice / filter / map / sort). *)
(***************************************************************************)
Min(a, b) == IF a <= b THEN a ELSE b
Max(a, b) == IF a >= b THEN a ELSE b

\* s.slice(0, n)
Slice(s, n) == SubSeq(s, 1, Min(Len(s), n))

Range(s) == {s[i] : i \in 1..Len(s)}

\* Array.prototype.sort (stable) with a comparator that orders by an integer
\* rank: rank[i] is the rank of s[i]; ascending, ties keep their input order.
SortByRank(s, rank) ==
    LET pos(i) == Cardinality({j \in 1..Len(s) :
                      rank[j] < rank[i] \/ (rank[j] = rank[i] /\ j < i)}) + 1
    IN [p \in 1..Len(s) |-> s[CHOOSE i \in 1..Len(s) : pos(i) = p]]

(***************************************************************************)
(* Posts.  title and body are phrase sequences; a tag "k:v" is [k, v].     *)
(***************************************************************************)
Null == ""

Tag(k, v) == [k |-> k, v |-> v]
Post(id, title, body, tags) == [id |-> id, title |-> title, body |-> body, tags |-> tags]

\* numeric value of the digit strings used as homework numbers
NumOf(s) == CASE s = "1" -> 1 [] s = "2" -> 2 [] s = "3" -> 3 [] s = "4" -> 4
              [] s = "5" -> 5 [] s = "10" -> 10 [] OTHER -> 0

\* tags.join(" ") as it appears inside the scanned text
TagPhrase(tag) ==
    IF tag.k = "hw" THEN <<"hw:", tag.v>>
    ELSE IF tag.k = "model" THEN <<"model:", tag.v>>
    ELSE <<"word", tag.v>>

TagPhrases(tags) == [i \in 1..Len(tags) |-> TagPhrase(tags[i])]

\* `${thread.title}\n${thread.body ?? ""}\n${tags.join(" ")}`
ThreadText(thread) == thread.title \o thread.body \o TagPhrases(thread.tags)

(***************************************************************************)
(* detectHomework: the patterns in priority order; each is the set of      *)
(* phrase kinds it matches.  The first pattern with a match wins and       *)
(* yields its leftmost match.                                               *)
(***************************************************************************)
HomeworkPatterns ==
    << {"hw"}, {"hw", "hw:"}, {"homework"}, {"assignment"}, {"project"} >>

PatternMatches(text, kinds) ==
    {i \in 1..Len(text) : text[i][1] \in kinds /\ text[i][2] # ""}

FirstOf(S) == CHOOSE i \in S : \A j \in S : i <= j

detectHomework(text) ==
    LET hits == {p \in 1..Len(HomeworkPatterns) :
                    PatternMatches(text, HomeworkPatterns[p]) # {}}
    IN IF hits = {} THEN Null
       ELSE text[FirstOf(PatternMatches(text, HomeworkPatterns[FirstOf(hits)]))][2]

(***************************************************************************)
(* detectModels: dictionary hits in dictionary order, then the generic     *)
(* "model: xyz" capture.                                                    *)
(***************************************************************************)
Dictionary ==
    << [key |-> "gpt-4o",      words |-> {"gpt-4o", "gpt4o", "gpt-4o-mini"}],
       [key |-> "gpt-4o-mini", words |-> {"gpt-4o-mini", "gpt4omini"}],
       [key |-> "o1",          words |-> {"o1", "o1-preview", "o1-mini"}],
       [key |-> "claude",      words |-> {"claude", "anthropic"}],
       [key |-> "gemini",      words |-> {"gemini"}],
       [key |-> "llama",       words |-> {"llama", "meta-llama"}],
       [key |-> "mistral",     words |-> {"mistral"}],
       [key |-> "deepseek",    words |-> {"deepseek"}],
       [key |-> "qwen",        words |-> {"qwen"}],
       [key |-> "grok",        words |-> {"grok"}] >>

TextWords(text) == {text[i][2] : i \in {j \in 1..Len(text) : text[j][1] \in {"word", "model:"}}}

\* the keys of the dictionary entries with a pattern that matches, in
\* dictionary order; words is the set of words of the text
DictionaryHits(words) ==
    LET matched == SelectSeq(Dictionary, LAMBDA entry : entry.words \cap words # {})
    IN [i \in 1..Len(matched) |-> matched[i].key]

detectModels(text) ==
    LET hits == DictionaryHits(TextWords(text))
        generic == PatternMatches(text, {"model:"})
    IN IF generic # {} /\ text[FirstOf(generic)][2] \notin Range(hits)
       THEN Append(hits, text[FirstOf(generic)][2])
       ELSE hits

(***************************************************************************)
(* groupThreads.  A Map is the sequence of its entries in insertion order. *)
(***************************************************************************)
Entry(key, items) == [key |-> key, items |-> items]

MapKeys(map) == {map[i].key : i \in 1..Len(map)}
MapIndex(map, key) == CHOOSE i \in 1..Len(map) : map[i].key = key

pushMapUniqueById(map, key, value) ==
    IF key \notin MapKeys(map) THEN Append(map, Entry(key, <<value>>))
    ELSE LET i == MapIndex(map, key)
         IN IF \E j \in 1..Len(map[i].items) : map[i].items[j].id = value.id
            THEN map
            ELSE [map EXCEPT ![i].items = Append(@, value)]

FindTag(tags, k) ==
    LET S == {i \in 1..Len(tags) : tags[i].k = k}
    IN IF S = {} THEN Null ELSE tags[FirstOf(S)].v

HasTag(tags, k) == \E i \in 1..Len(tags) : tags[i].k = k

RECURSIVE PushAll(_, _, _)
PushAll(map, models, thread) ==
    IF models = <<>> THEN map
    ELSE PushAll(pushMapUniqueById(map, <<"model", Head(models)>>, thread),
                 Tail(models), thread)

\* one iteration of the for-loop over threads
GroupStep(groups, thread) ==
    LET text == ThreadText(thread)
        hw == IF HasTag(thread.tags, "hw") THEN FindTag(thread.tags, "hw")
              ELSE detectHomework(text)
        hg == IF hw # Null THEN pushMapUniqueById(groups.homeworkGroups, <<"hw", hw>>, thread)
              ELSE groups.homeworkGroups
        mg == IF HasTag(thread.tags, "base_model")
              THEN IF FindTag(thread.tags, "base_model") # Null
                   THEN pushMapUniqueById(groups.modelGroups,
                            <<"model", FindTag(thread.tags, "base_model")>>, thread)
                   ELSE groups.modelGroups
              ELSE PushAll(groups.modelGroups, detectModels(text), thread)
    IN [homeworkGroups |-> hg, modelGroups |-> mg]

RECURSIVE GroupScan(_)
GroupScan(threads) ==
    IF threads = <<>> THEN [homeworkGroups |-> <<>>, modelGroups |-> <<>>]
    ELSE GroupStep(GroupScan(SubSeq(threads, 1, Len(threads) - 1)), threads[Len(threads)])

\* no bucket is dropped
KeepEveryGroup(entry) == TRUE

KeepModelGroup(entry) == ~(Len(entry.items) < MinModelGroup)

groupThreads(threads) ==
    LET g == GroupScan(threads)
    IN [homeworkGroups |-> g.homeworkGroups,
        modelGroups |-> SelectSeq(g.modelGroups, KeepModelGroup)]

(***************************************************************************)
(* GroupSummary and the heuristic grouped perspective.                     *)
(***************************************************************************)
Lit(text) == << <<"lit", text>> >>

Overview(kind, n, text) == [kind |-> kind, n |-> n, text |-> text]

PostSummary(id, title, takeaway) == [id |-> id, title |-> title, takeaway |-> takeaway]

GroupSummary(key, label, count, overview, posts) ==
    [key |-> key, label |-> label, count |-> count, overview |-> overview, posts |-> posts]

Perspective(homeworks, models, modelUsed, mode, note) ==
    [homeworks |-> homeworks, models |-> models, modelUsed |-> modelUsed,
     mode |-> mode, note |-> note]

\* (thread.body ?? "").slice(0, 120) || "No preview content available."
HeuristicTakeaway(thread) ==
    IF Slice(thread.body, TakeawayLimit) # <<>> THEN Slice(thread.body, TakeawayLimit)
    ELSE Lit("No preview content available.")

toSummary(labelPrefix, key, items, note) ==
    GroupSummary(key, <<labelPrefix, key[2]>>, Len(items),
                 Overview("heuristic", Len(items), note),
                 [i \in 1..Len(Slice(items, HeuristicPostLimit)) |->
                     PostSummary(items[i].id, items[i].title, HeuristicTakeaway(items[i]))])

\* entries sorted by a[0].localeCompare(b[0], undefined, {numeric: true})
SortHomeworkEntries(entries) ==
    SortByRank(entries, [i \in 1..Len(entries) |-> NumOf(entries[i].key[2])])

\* entries sorted by b[1].length - a[1].length
SortBySizeDesc(entries) ==
    SortByRank(entries, [i \in 1..Len(entries) |-> 0 - Len(entries[i].items)])

buildHeuristicGroupedPerspective(threads, note) ==
    LET g == groupThreads(threads)
        hw == SortHomeworkEntries(g.homeworkGroups)
        md == SortBySizeDesc(g.modelGroups)
    IN Perspective([i \in 1..Len(hw) |-> toSummary("Homework", hw[i].key, hw[i].items, note)],
                   [i \in 1..Len(md) |-> toSummary("Model", md[i].key, md[i].items, note)],
                   "heuristic", "heuristic", note)

(***************************************************************************)
(* mergeGroupPerspectives: byKey holds the last enhanced summary per key.  *)
(***************************************************************************)
ByKeyLookupFirst(enhancedAll, group) ==
    IF enhancedAll = <<>> THEN group ELSE enhancedAll[1]

ByKeyLookup(enhancedAll, group) ==
    LET S == {i \in 1..Len(enhancedAll) : enhancedAll[i].key = group.key}
    IN IF S = {} THEN group
       ELSE enhancedAll[CHOOSE i \in S : \A j \in S : j <= i]

mergeGroupPerspectives(baseline, enhanced) ==
    LET all == enhanced.homeworks \o enhanced.models
    IN Perspective([i \in 1..Len(baseline.homeworks) |-> ByKeyLookup(all, baseline.homeworks[i])],
                   [i \in 1..Len(baseline.models) |-> ByKeyLookup(all, baseline.models[i])],
                   enhanced.modelUsed, enhanced.mode, baseline.note)

(***************************************************************************)
(* summarizeGroup, the part after the remote call returned `content`.      *)
(* content is [start, end, valid, overview, posts]: the index of the first *)
(* "{" and of the last "}" (-1 when absent), whether JSON.parse accepts    *)
(* the slice between them, and the parsed fields; a field that is missing  *)
(* or of the wrong type is "" / <<>>, which is what the code maps it to.   *)
(***************************************************************************)
Content(start, end, valid, overview, posts) ==
    [start |-> start, end |-> end, valid |-> valid, overview |-> overview, posts |-> posts]

NoJson == [overview |-> "", posts |-> <<>>]

safeParseJsonObject(input) ==
    IF input.start = -1 \/ input.end = -1 \/ input.end <= input.start THEN NoJson
    ELSE IF ~input.valid THEN NoJson
    ELSE [overview |-> input.overview, posts |-> input.posts]

SampleOf(items) ==
    [i \in 1..Len(Slice(items, SampleLimit)) |->
        [id |-> items[i].id, title |-> items[i].title,
         body |-> Slice(items[i].body, SampleBodyLimit), tags |-> items[i].tags]]

\* .filter((p) => p.id && p.title && p.takeaway)
IsCompleteEntry(p) == p.id # "" /\ p.title # <<>> /\ p.takeaway # <<>>

\* (thread.body || "No body.").slice(0, 120)
PatchedTakeaway(thread) ==
    Slice(IF thread.body # <<>> THEN thread.body ELSE Lit("No body."), TakeawayLimit)

\* the for-loop that appends the sample threads whose id the model left out
RECURSIVE PatchMissing(_, _, _)
PatchMissing(patched, seen, sample) ==
    IF sample = <<>> THEN patched
    ELSE IF Head(sample).id \in seen THEN PatchMissing(patched, seen, Tail(sample))
    ELSE PatchMissing(Append(patched,
                             PostSummary(Head(sample).id, Head(sample).title,
                                         PatchedTakeaway(Head(sample)))),
                      seen, Tail(sample))

\* patched.slice(0, sample.length)
CapPatched(patched, sample) == Slice(patched, Len(sample))

GroupLabel(key) == <<IF key[1] = "hw" THEN "Homework" ELSE "Model", key[2]>>

SummaryFromContent(key, items, content) ==
    LET sample == SampleOf(items)
        parsed == safeParseJsonObject(content)
        posts == SelectSeq(parsed.posts, IsCompleteEntry)
        seen == {posts[i].id : i \in 1..Len(posts)}
        patched == PatchMissing(posts, seen, sample)
        label == GroupLabel(key)
    IN GroupSummary(key, label, Len(items),
                    IF parsed.overview # "" THEN Overview("ai", 0, parsed.overview)
                    ELSE Overview("unavailable", 0, "AI summary unavailable"),
                    CapPatched(patched, sample))

\* hashKey({kind: "group", model, key, sample}): SHA-256 of the JSON text,
\* taken as injective, so the key is the serialized value itself.
hashKey(kind, model, key, sample) ==
    [kind |-> kind, model |-> model, key |-> key, sample |-> sample]

GroupCacheKey(entry) == hashKey("group", Model, entry.key, SampleOf(entry.items))

(***************************************************************************)
(* CSV ingestion (lib/csvPosts.ts).  A text is a sequence of characters;   *)
(* only the quote, the comma, "\n", "\r" and the blank are told apart by   *)
(* the code, every other character is an opaque token.                     *)
(***************************************************************************)
DQ == "\""
COMMA == ","
LF == "\n"
CR == "\r"
BLANK == " "

\* input[i], or "" for the `undefined` read past the end
CharAt(input, i) == IF i >= 1 /\ i <= Len(input) THEN input[i] ELSE ""

\* row.some((cell) => cell.length > 0)
HasContent(row) == \E k \in 1..Len(row) : Len(row[k]) > 0

PushRowAlways(rows, row) == Append(rows, row)

\* if (row.some(...)) rows.push(row)
PushRow(rows, row) == IF HasContent(row) THEN Append(rows, row) ELSE rows

IsEscapedQuoteNever(inQuotes, next) == FALSE

\* inQuotes && next === '"'
IsEscapedQuote(inQuotes, next) == inQuotes /\ next = DQ

IsSeparatorAnywhere(char, inQuotes) == char = COMMA

\* char === "," && !inQuotes
IsSeparator(char, inQuotes) == char = COMMA /\ ~inQuotes

\* (char === "\n" || char === "\r") && !inQuotes
IsLineBreak(char, inQuotes) == (char = LF \/ char = CR) /\ ~inQuotes

\* the loop of parseCsv from position i on (1-based), then the final flush
RECURSIVE ParseFrom(_, _, _, _, _, _)
ParseFrom(input, i, rows, row, field, inQuotes) ==
    IF i > Len(input) THEN PushRow(rows, Append(row, field))
    ELSE LET char == input[i]
             next == CharAt(input, i + 1)
         IN IF char = DQ
            THEN IF IsEscapedQuote(inQuotes, next)
                 THEN ParseFrom(input, i + 2, rows, row, Append(field, DQ), inQuotes)
                 ELSE ParseFrom(input, i + 1, rows, row, field, ~inQuotes)
            ELSE IF IsSeparator(char, inQuotes)
            THEN ParseFrom(input, i + 1, rows, Append(row, field), <<>>, inQuotes)
            ELSE IF IsLineBreak(char, inQuotes)
            THEN ParseFrom(input, IF char = CR /\ next = LF THEN i + 2 ELSE i + 1,
                           PushRow(rows, Append(row, field)), <<>>, <<>>, inQuotes)
            ELSE ParseFrom(input, i + 1, rows, row, Append(field, char), inQuotes)

parseCsv(input) == ParseFrom(input, 1, <<>>, <<>>, <<>>, FALSE)

(***************************************************************************)
(* buildRecord / toThread / dedupeById.  A record is a function from the   *)
(* header names to field texts.                                            *)
(***************************************************************************)
RECURSIVE RecordFrom(_, _, _)
RecordFrom(header, row, n) ==
    IF n = 0 THEN [k \in {} |-> <<>>]
    ELSE LET rest == RecordFrom(header, row, n - 1)
             key == header[n]
         IN IF key = <<>> THEN rest
            ELSE [k \in DOMAIN rest \cup {key} |->
                    IF k = key THEN (IF n <= Len(row) THEN row[n] ELSE <<>>)
                    ELSE rest[k]]

\* a record that holds only the columns the row has a field for
buildRecordSparse(header, row) == RecordFrom(header, row, Min(Len(header), Len(row)))

\* the record of a row; an empty row gives null, which the caller filters out
buildRecord(header, row) == RecordFrom(header, row, Len(header))

\* if (!row.length) return null
IsNullRecord(row) == Len(row) = 0

RECURSIVE TrimStart(_)
TrimStart(text) ==
    IF text # <<>> /\ Head(text) = BLANK THEN TrimStart(Tail(text)) ELSE text

RECURSIVE TrimEnd(_)
TrimEnd(text) ==
    IF text # <<>> /\ text[Len(text)] = BLANK THEN TrimEnd(SubSeq(text, 1, Len(text) - 1))
    ELSE text

Trim(text) == TrimEnd(TrimStart(text))

\* (record.name ?? "")
Field(record, name) == IF <<name>> \in DOMAIN record THEN record[<<name>>] ELSE <<>>

\* crypto.randomUUID(): a fresh value per call, never a text of the file
RandomUUID(n) == <<"uuid", ToString(n)>>

OrElse(a, b) == IF a # <<>> THEN a ELSE b

CsvTags(hwNumber, model, baseModel, version) ==
    SelectSeq(<< Tag("hw", hwNumber), Tag("model", model),
                 Tag("base_model", baseModel), Tag("version", version) >>,
              LAMBDA t : t.v # <<>>)

\* toThread for the n-th record of the file
toThread(record, n) ==
    LET threadId == Trim(Field(record, "thread_id"))
        titleClean == Trim(Field(record, "title_clean"))
        titleRaw == Trim(Field(record, "title_raw"))
        name == Trim(Field(record, "name"))
    IN [id |-> OrElse(threadId, RandomUUID(n)),
        title |-> OrElse(titleClean, OrElse(titleRaw, <<"Untitled">>)),
        body |-> Field(record, "text"),
        tags |-> CsvTags(Trim(Field(record, "hw_number")), Trim(Field(record, "model")),
                         Trim(Field(record, "base_model")), Trim(Field(record, "version"))),
        author |-> OrElse(name, <<"Unknown author">>),
        threadId |-> threadId]

RECURSIVE DedupeScan(_)
DedupeScan(posts) ==
    IF posts = <<>> THEN <<>>
    ELSE LET kept == DedupeScan(SubSeq(posts, 1, Len(posts) - 1))
             last == posts[Len(posts)]
         IN IF \E k \in 1..Len(kept) : kept[k].id = last.id THEN kept
            ELSE Append(kept, last)

DedupeNothing(posts) == posts

dedupeById(posts) == DedupeScan(posts)

(***************************************************************************)
(* fetchCsvPosts.  file is [readable, text]: what fs.readFile does.        *)
(***************************************************************************)
CsvResult(posts, warning, threw) == [threads |-> posts, warning |-> warning, threw |-> threw]

CsvRethrow == CsvResult(<<>>, Null, TRUE)

\* the catch block: the error becomes a warning
CsvCatch == CsvResult(<<>>, "Failed to read CSV", FALSE)

\* rows.slice(1).map((row) => buildRecord(header, row)).filter((record) => record)
RecordsOf(rows) ==
    LET header == rows[1]
        data == SelectSeq(SubSeq(rows, 2, Len(rows)), LAMBDA row : ~IsNullRecord(row))
    IN [n \in 1..Len(data) |-> buildRecord(header, data[n])]

fetchCsvPosts(file) ==
    IF ~file.readable THEN CsvCatch
    ELSE LET rows == parseCsv(file.text)
         IN IF rows = <<>> THEN CsvResult(<<>>, "CSV file is empty.", FALSE)
            ELSE LET records == RecordsOf(rows)
                 IN CsvResult(dedupeById([n \in 1..Len(records) |-> toThread(records[n], n)]),
                              Null, FALSE)

(***************************************************************************)
(* Ingestion as a state machine: one load of one file.                     *)
(***************************************************************************)
VARIABLES
    csvSource,   \* how the file's text was written (what the properties refer to)
    csvFile,     \* the file as fs.readFile finds it
    csvPc,       \* "idle" before fetchCsvPosts ran, "done" after
    csvRows,     \* what parseCsv returned inside the load
    csvRecords,  \* the records built from the data rows inside the load
    csvOut       \* what fetchCsvPosts returned

csvVars == <<csvSource, csvFile, csvPc, csvRows, csvRecords, csvOut>>

Source(kind, rows, content, before, after, tail) ==
    [kind |-> kind, rows |-> rows, content |-> content,
     before |-> before, after |-> after, tail |-> tail]

RECURSIVE SeqsUpTo(_, _)
SeqsUpTo(S, n) ==
    IF n = 0 THEN {<<>>}
    ELSE LET shorter == SeqsUpTo(S, n - 1)
         IN shorter \cup {Append(e[1], e[2]) : e \in {f \in shorter \X S : Len(f[1]) = n - 1}}

\* a quoted field as a CSV writer emits it: quotes doubled, wrapped in quotes
RECURSIVE Doubled(_)
Doubled(content) ==
    IF content = <<>> THEN <<>>
    ELSE (IF Head(content) = DQ THEN <<DQ, DQ>> ELSE <<Head(content)>>) \o Doubled(Tail(content))

Quoted(content) == <<DQ>> \o Doubled(content) \o <<DQ>>

RECURSIVE JoinWith(_, _)
JoinWith(parts, sep) ==
    IF parts = <<>> THEN <<>>
    ELSE IF Len(parts) = 1 THEN parts[1]
    ELSE parts[1] \o sep \o JoinWith(Tail(parts), sep)

TableHeader == << <<"thread_id">>, <<"title_clean">> >>

RowTitle(i) == <<"r" \o ToString(i)>>

ThreadIdChoices == { <<>>, <<"t1">>, <<"t2">>, <<BLANK, "t1">> }

TableText(ids) ==
    JoinWith(<<JoinWith(TableHeader, <<COMMA>>)>>
             \o [i \in 1..Len(ids) |-> ids[i] \o <<COMMA>> \o RowTitle(i)], <<LF>>)

\* a table of one data row whose number of fields is independent of the
\* header's: src.content holds the header names, src.rows the row's fields
HeaderChoices ==
    { << <<"thread_id">> >>,
      << <<"thread_id">>, <<"title_clean">> >>,
      << <<"thread_id">>, <<"title_clean">>, <<"text">> >>,
      << <<"thread_id">>, <<>>, <<"text">> >> }

RaggedRows ==
    {[i \in 1..n |-> IF i \in S THEN <<"v" \o ToString(i)>> ELSE <<>>] :
        n \in 1..MaxRowFields, S \in SUBSET (1..MaxRowFields)} \ {<<>>}

RaggedText(src) == JoinWith(src.content, <<COMMA>>) \o <<LF>> \o JoinWith(src.rows, <<COMMA>>)

TailChoices == { <<>>, <<LF>>, <<CR, LF>>, <<LF, "z">> }

QuotedText(src) ==
    (IF src.before THEN <<"x", COMMA>> ELSE <<>>)
    \o Quoted(src.content)
    \o (IF src.after THEN <<COMMA, "y">> ELSE <<>>)
    \o src.tail

CsvSources ==
    {Source("unreadable", <<>>, <<>>, FALSE, FALSE, <<>>)}
    \cup {Source("blank", <<>>, <<>>, FALSE, FALSE, t) : t \in {<<>>, <<LF>>, <<CR, LF>>, <<LF, LF>>}}
    \cup {Source("table", ids, <<>>, FALSE, FALSE, <<>>) : ids \in SeqsUpTo(ThreadIdChoices, MaxCsvRows)}
    \cup {Source("ragged", row, header, FALSE, FALSE, <<>>) :
            header \in HeaderChoices, row \in {r \in RaggedRows : \E k \in 1..Len(r) : r[k] # <<>>}}
    \cup {Source("text", <<>>, c, FALSE, FALSE, <<>>) :
            c \in SeqsUpTo({"a", COMMA, DQ, LF, CR}, MaxTextLen)}
    \cup {Source("quoted", <<>>, c, b, a, t) :
            c \in SeqsUpTo({"a", COMMA, DQ, LF, CR}, MaxFieldLen) \ {<<>>},
            b \in BOOLEAN, a \in BOOLEAN, t \in TailChoices}

FileOf(src) ==
    [readable |-> src.kind # "unreadable",
     text |-> CASE src.kind = "table" -> TableText(src.rows)
                [] src.kind = "quoted" -> QuotedText(src)
                [] src.kind = "blank" -> src.tail
                [] src.kind = "text" -> src.content
                [] src.kind = "ragged" -> RaggedText(src)
                [] OTHER -> <<>>]

NoCsvResult == CsvResult(<<>>, Null, FALSE)

CsvIdle ==
    /\ csvSource = Source("none", <<>>, <<>>, FALSE, FALSE, <<>>)
    /\ csvFile = FileOf(csvSource)
    /\ csvPc = "idle"
    /\ csvRows = <<>>
    /\ csvRecords = <<>>
    /\ csvOut = NoCsvResult

(***************************************************************************)
(* buildAIPerspective in a process without credential, and the tag counts  *)
(* of buildHeuristicPerspective.  A post is [id, hasTags, tags]: hasTags   *)
(* is FALSE when the optional field tags is undefined.  A counted Map is   *)
(* the sequence of its [tag, count] entries in insertion order.            *)
(***************************************************************************)
VARIABLES
    tagThreads,  \* the posts handed to buildAIPerspective
    tagPc,       \* "idle" before buildAIPerspective ran, "done" after
    tagCounts,   \* tagCounts of buildHeuristicPerspective at its return
    tagOut       \* what buildAIPerspective returned

tagVars == <<tagThreads, tagPc, tagCounts, tagOut>>

TaggedPost(id, hasTags, tags) == [id |-> id, hasTags |-> hasTags, tags |-> tags]

EmptyTag == Tag("", <<>>)
Untagged == Tag("untagged", <<>>)

\* tagCounts.set(key, (tagCounts.get(key) ?? 0) + 1)
CountTag(counts, key) ==
    LET S == {i \in 1..Len(counts) : counts[i].tag = key}
    IN IF S = {} THEN Append(counts, [tag |-> key, count |-> 1])
       ELSE [counts EXCEPT ![FirstOf(S)].count = @ + 1]

\* thread.tags ?? ["untagged"]
TagsOrUntagged(thread) == IF thread.hasTags THEN thread.tags ELSE <<Untagged>>

\* the inner forEach over the tags of one post; key = tag || "untagged"
RECURSIVE CountTags(_, _)
CountTags(counts, tags) ==
    IF tags = <<>> THEN counts
    ELSE CountTags(CountTag(counts, IF Head(tags) = EmptyTag THEN Untagged ELSE Head(tags)),
                   Tail(tags))

\* the outer forEach over the posts
RECURSIVE CountThreads(_)
CountThreads(posts) ==
    IF posts = <<>> THEN <<>>
    ELSE CountTags(CountThreads(SubSeq(posts, 1, Len(posts) - 1)),
                   TagsOrUntagged(posts[Len(posts)]))

\* entries sorted by b[1] - a[1], the first four
TopTags(counts) ==
    Slice(SortByRank(counts, [i \in 1..Len(counts) |-> 0 - counts[i].count]), 4)

Overall(summary, clusters, modelUsed, mode) ==
    [summary |-> summary, clusters |-> clusters, modelUsed |-> modelUsed, mode |-> mode]

OverallSummary(text, n, topTags, note) ==
    [text |-> text, threads |-> n, topTags |-> topTags, note |-> note]

buildHeuristicPerspective(posts, note) ==
    LET top == TopTags(CountThreads(posts))
    IN Overall(IF Len(posts) # 0
               THEN OverallSummary("AI heuristic summary", Len(posts),
                                   IF top = <<>> THEN <<"no tags yet">> ELSE top, note)
               ELSE OverallSummary("Waiting for posts", 0, <<>>, ""),
               [i \in 1..Len(top) |->
                   [title |-> top[i].tag, tags |-> <<top[i].tag>>, size |-> top[i].count]],
               "heuristic", "heuristic")

NoOverall == Overall(OverallSummary("", 0, <<>>, ""), <<>>, "", "")

\* buildAIPerspective with OPENAI_API_KEY unset
buildAIPerspective(posts) ==
    IF Len(posts) = 0
    THEN Overall(OverallSummary("No posts found", 0, <<>>, ""), <<>>, "none", "heuristic")
    ELSE buildHeuristicPerspective(posts, "OPENAI_API_KEY not provided.")

TagIdle ==
    /\ tagThreads = <<>>
    /\ tagPc = "idle"
    /\ tagCounts = <<>>
    /\ tagOut = NoOverall

\* the tag lists toThread builds (hw_number and base_model set or not), a
\* list holding an empty tag, and posts built elsewhere with tags undefined
TagLists ==
    {CsvTags(hw, <<>>, base, <<>>) : hw \in {<<>>, <<"1">>}, base \in {<<>>, <<"claude">>}}
    \cup {<<EmptyTag>>}

TaggedPosts(id) ==
    {TaggedPost(id, TRUE, tags) : tags \in TagLists} \cup {TaggedPost(id, FALSE, <<>>)}

TagInputs ==
    UNION {{posts \in [1..n -> UNION {TaggedPosts(ToString(i)) : i \in 1..n}] :
               \A i \in 1..n : posts[i].id = ToString(i)} : n \in 0..MaxTagPosts}

(***************************************************************************)
(* The running system: page renders (requests) of one process, each one    *)
(* call of buildGroupedAIPerspective, sharing the process-wide cache.      *)
(***************************************************************************)
VARIABLES
    threads,      \* the post list every render is given (the CSV is fixed)
    apiKey,       \* whether OPENAI_API_KEY is set
    maxGroups,    \* Number(AI_GROUP_MAX ?? 8)
    concurrency,  \* Math.max(1, Number(AI_OPENAI_CONCURRENCY ?? 2))
    maxAttempts,  \* Math.max(1, Number(AI_OPENAI_MAX_RETRIES ?? 5))
    statuses,     \* the HTTP statuses the remote API answers with
    retryAfters,  \* the retry-after headers a 429/5xx response may carry
    jitters,      \* the values jitter(250) may return
    slots,        \* how many page renders may be in progress at once
    cache,        \* globalThis.__ai_cache: a set of [k, v] entries, one per key
    fetches,      \* per request: number of fetch() calls it has issued
    pc,           \* per request: where buildGroupedAIPerspective stands
    pool,         \* per request: the bucket list its workers are draining
    index,        \* per request: mapWithConcurrency's shared index
    results,      \* per request: mapWithConcurrency's results array
    worker,       \* per request and worker: the worker's position and current call
    homeworks,    \* per request: the resolved result of the first pool
    ret,          \* per request: what buildGroupedAIPerspective returned
    invoked,      \* history: per request, pool and item, how often fn was called
    claimedBy,    \* history: per request, pool and item, the workers that claimed it
    late          \* history: per request, the items dispatched after the call returned

aiVars == <<threads, apiKey, maxGroups, concurrency, maxAttempts, statuses, retryAfters, jitters, slots,
            cache, fetches, pc, pool, index, results, worker, homeworks, ret,
            invoked, claimedBy, late>>

allVars == <<aiVars, csvVars, tagVars>>

configVars == <<threads, apiKey, maxGroups, concurrency, maxAttempts, statuses,
                retryAfters, jitters, slots>>

Requests == 1..MaxRequests

(***************************************************************************)
(* The wait before a retry.  A retry-after header is absent, a number of   *)
(* seconds, or an HTTP date s seconds ahead.  Every number of milliseconds *)
(* here is >= 0; NaN stands for the not-a-number value of Number(text).    *)
(***************************************************************************)
NaN == -1

NoRetryAfter == [kind |-> "absent", s |-> 0]
RetryAfterSeconds(s) == [kind |-> "seconds", s |-> s]
RetryAfterDate(s) == [kind |-> "date", s |-> s]

\* retryAfter ? Number(retryAfter) * 1000 : 0
RetryAfterMs(hdr) ==
    IF hdr.kind = "absent" THEN 0
    ELSE IF hdr.kind = "seconds" THEN hdr.s * 1000
    ELSE NaN

RECURSIVE Pow2(_)
Pow2(n) == IF n <= 0 THEN 1 ELSE 2 * Pow2(n - 1)

\* Math.min / Math.max: NaN if an argument is NaN
MathMin(a, b) == IF a = NaN \/ b = NaN THEN NaN ELSE Min(a, b)
MathMax(a, b) == IF a = NaN \/ b = NaN THEN NaN ELSE Max(a, b)

\* Math.min(30_000, 600 * 2 ** (attempt - 1) + jitter(250))
BackoffMs(attempt, jit) == MathMin(BackoffCapMs, BackoffBaseMs * Pow2(attempt - 1) + jit)

\* the argument of sleep: Math.max(retryAfterMs, backoffMs)
SleepMs(hdr, attempt, jit) == MathMax(RetryAfterMs(hdr), BackoffMs(attempt, jit))
Workers == 1..MaxConc

NoSummary == GroupSummary(<<"none", "">>, <<"", "">>, 0, Overview("none", 0, ""), <<>>)
NoPerspective == Perspective(<<>>, <<>>, "", "none", "")

\* st: "off" (not started), "fetch" (a fetch is in flight), "sleep" (backoff),
\* "settled" (fn's promise settled, the worker not yet resumed), "done", "failed";
\* cur: the claimed index; attempt: openaiChatCompletion's loop variable;
\* sent: fetches issued by the current call; last: the last status it received
\* hdr, jit, wait: during a backoff sleep, the retry-after header received,
\* the jitter drawn and the milliseconds passed to sleep
IdleWorker == [st |-> "off", cur |-> -1, attempt |-> 0, sent |-> 0, last |-> 0,
               ok |-> FALSE, out |-> NoSummary, err |-> "",
               hdr |-> NoRetryAfter, jit |-> 0, wait |-> 0]

(***************************************************************************)
(* callOpenAIForGroupsLimited: the buckets selected for remote summaries.  *)
(***************************************************************************)
HomeworkEntries ==
    Slice(SortBySizeDesc(groupThreads(threads).homeworkGroups), maxGroups)

ModelEntries ==
    Slice(SortBySizeDesc(groupThreads(threads).modelGroups), maxGroups)

PoolItems(name) ==
    IF name = "homeworks" THEN HomeworkEntries
    ELSE IF name = "models" THEN ModelEntries
    ELSE <<>>

(***************************************************************************)
(* The cache.                                                              *)
(***************************************************************************)
CacheHas(c, k) == \E e \in c : e.k = k
getCache(c, k) == (CHOOSE e \in c : e.k = k).v
setCache(c, k, v) == {e \in c : e.k # k} \cup {[k |-> k, v |-> v]}

(***************************************************************************)
(* What the remote API may answer to one request.                          *)
(***************************************************************************)
EchoContent(sample) ==
    Content(0, 1, TRUE, "overview",
            [i \in 1..Len(sample) |->
                PostSummary(sample[i].id, sample[i].title, Lit("takeaway"))])

StrayContent == Content(0, 1, TRUE, "", << PostSummary("zz", Lit("x"), Lit("y")) >>)

GarbageContent == Content(-1, -1, FALSE, "", <<>>)

ModelReplies(sample) == {EchoContent(sample), StrayContent, GarbageContent}

IsOk(status) == status >= 200 /\ status <= 299
IsRetryable(status) == status = 429 \/ (status >= 500 /\ status <= 599)

\* a response: the fetch rejects, or resolves with a status; an ok response
\* has a body whose choices[0].message.content is present or not
Responses(sample) ==
    {[kind |-> "network", status |-> 0, content |-> GarbageContent]}
    \cup {[kind |-> "http", status |-> s, content |-> GarbageContent] :
             s \in {t \in statuses : ~IsOk(t)}}
    \cup {[kind |-> "empty", status |-> s, content |-> GarbageContent] :
             s \in {t \in statuses : IsOk(t)}}
    \cup {[kind |-> "http", status |-> s, content |-> c] :
             s \in {t \in statuses : IsOk(t)}, c \in ModelReplies(sample)}

(***************************************************************************)
(* mapWithConcurrency and summarizeGroup up to the first suspension.       *)
(***************************************************************************)
\* fn(items[current]) until it first suspends: a cache hit returns at once,
\* a miss enters openaiChatCompletion and issues the first fetch
StartCall(entry, current, c) ==
    IF CacheHas(c, GroupCacheKey(entry))
    THEN [st |-> "settled", cur |-> current, attempt |-> 0, sent |-> 0, last |-> 0,
          ok |-> TRUE, out |-> getCache(c, GroupCacheKey(entry)), err |-> "",
          hdr |-> NoRetryAfter, jit |-> 0, wait |-> 0]
    ELSE [st |-> "fetch", cur |-> current, attempt |-> 1, sent |-> 1, last |-> 0,
          ok |-> FALSE, out |-> NoSummary, err |-> "",
          hdr |-> NoRetryAfter, jit |-> 0, wait |-> 0]

\* one worker per item
WorkerCountAll(items) == Len(items)

\* Math.min(concurrency, items.length) workers, each run to its first await
WorkerCount(items) == Min(concurrency, Len(items))

LaunchedWorkers(items, c) ==
    [w \in Workers |-> IF w <= WorkerCount(items) THEN StartCall(items[w], w - 1, c)
                       ELSE IdleWorker]

FetchesOf(ws) == Cardinality({w \in Workers : ws[w].st = "fetch"})

\* mapWithConcurrency(items, concurrency, fn) up to `await Promise.all(workers)`
LaunchPool(r, name) ==
    LET items == PoolItems(name)
        ws == LaunchedWorkers(items, cache)
        n == WorkerCount(items)
    IN /\ pool' = [pool EXCEPT ![r] = name]
       /\ index' = [index EXCEPT ![r] = n]
       /\ results' = [results EXCEPT ![r] = [i \in 1..Len(items) |-> NoSummary]]
       /\ worker' = [worker EXCEPT ![r] = ws]
       /\ fetches' = [fetches EXCEPT ![r] = (IF name = "homeworks" THEN 0 ELSE @) + FetchesOf(ws)]
       /\ invoked' = [invoked EXCEPT ![r] =
                        [(IF name = "homeworks" THEN [homeworks |-> <<>>, models |-> <<>>] ELSE @)
                            EXCEPT ![name] = [i \in 1..Len(items) |-> IF i <= n THEN 1 ELSE 0]]]
       /\ claimedBy' = [claimedBy EXCEPT ![r] =
                        [(IF name = "homeworks" THEN [homeworks |-> <<>>, models |-> <<>>] ELSE @)
                            EXCEPT ![name] = [i \in 1..Len(items) |-> IF i <= n THEN {i} ELSE {}]]]
       /\ late' = [late EXCEPT ![r] = IF name = "homeworks" THEN {} ELSE @]

\* a render that starts no pool: nothing of an earlier render in this slot remains
ResetPool(r) ==
    /\ pool' = [pool EXCEPT ![r] = "none"]
    /\ index' = [index EXCEPT ![r] = 0]
    /\ results' = [results EXCEPT ![r] = <<>>]
    /\ worker' = [worker EXCEPT ![r] = [w \in Workers |-> IdleWorker]]
    /\ fetches' = [fetches EXCEPT ![r] = 0]
    /\ invoked' = [invoked EXCEPT ![r] = [homeworks |-> <<>>, models |-> <<>>]]
    /\ claimedBy' = [claimedBy EXCEPT ![r] = [homeworks |-> <<>>, models |-> <<>>]]
    /\ late' = [late EXCEPT ![r] = {}]

Quiescent(r) ==
    /\ pc[r] = "done"
    /\ \A w \in Workers : worker[r][w].st \in {"off", "done", "failed"}

FallbackEmpty(message) ==
    Perspective(<<>>, <<>>, "heuristic", "heuristic", "OpenAI failed: " \o message)

\* a fallback that shows the remote summaries already in the cache
CachedOrHeuristic(summaries, entries) ==
    [i \in 1..Len(summaries) |->
        LET hit == {e \in Range(entries) :
                       e.key = summaries[i].key /\ CacheHas(cache, GroupCacheKey(e))}
        IN IF hit = {} THEN summaries[i]
           ELSE getCache(cache, GroupCacheKey(CHOOSE e \in hit : TRUE))]

FallbackKeepsCached(message) ==
    LET base == buildHeuristicGroupedPerspective(threads, "OpenAI failed: " \o message)
    IN [base EXCEPT !.homeworks = CachedOrHeuristic(@, groupThreads(threads).homeworkGroups),
                    !.models = CachedOrHeuristic(@, groupThreads(threads).modelGroups)]

\* the catch block of buildGroupedAIPerspective
Fallback(message) == buildHeuristicGroupedPerspective(threads, "OpenAI failed: " \o message)

EnhancedOf(hws, mds) == Perspective(hws, mds, Model, "llm", Null)

(***************************************************************************)
(* buildGroupedAIPerspective, from its call to its first suspension.       *)
(***************************************************************************)
UseRemoteAlways == TRUE

\* `if (openaiKey)`
UseRemote == apiKey

Begin(r) ==
    /\ r <= slots
    /\ pc[r] = "idle" \/ Quiescent(r)
    /\ IF ~UseRemote
       THEN /\ ret' = [ret EXCEPT ![r] =
                  buildHeuristicGroupedPerspective(threads, "OPENAI_API_KEY not provided.")]
            /\ pc' = [pc EXCEPT ![r] = "done"]
            /\ ResetPool(r)
       ELSE IF maxGroups <= 0
       THEN /\ ret' = [ret EXCEPT ![r] =
                  mergeGroupPerspectives(
                      buildHeuristicGroupedPerspective(threads, "Heuristic baseline."),
                      EnhancedOf(<<>>, <<>>))]
            /\ pc' = [pc EXCEPT ![r] = "done"]
            /\ ResetPool(r)
       ELSE /\ LaunchPool(r, "homeworks")
            /\ pc' = [pc EXCEPT ![r] = "homeworks"]
            /\ ret' = [ret EXCEPT ![r] = NoPerspective]
    /\ homeworks' = [homeworks EXCEPT ![r] = <<>>]
    /\ UNCHANGED <<configVars, cache, csvVars, tagVars>>

(***************************************************************************)
(* openaiChatCompletion: the fetch of worker w settles.                    *)
(***************************************************************************)
Settle(rec, ok, out, err) == [rec EXCEPT !.st = "settled", !.ok = ok, !.out = out, !.err = err]

StatusMessage(status) == "OpenAI responded with " \o ToString(status)

Respond(r, w) ==
    /\ worker[r][w].st = "fetch"
    /\ LET rec == worker[r][w]
           entry == PoolItems(pool[r])[rec.cur + 1]
       IN \E resp \in Responses(SampleOf(entry.items)) :
            IF resp.kind = "network"
            THEN /\ worker' = [worker EXCEPT ![r][w] =
                        Settle([rec EXCEPT !.last = 0], FALSE, NoSummary, "fetch failed")]
                 /\ UNCHANGED cache
            ELSE IF IsOk(resp.status)
            THEN IF resp.kind = "empty"
                 THEN /\ worker' = [worker EXCEPT ![r][w] =
                            Settle([rec EXCEPT !.last = resp.status], FALSE, NoSummary,
                                   "OpenAI response missing content")]
                      /\ UNCHANGED cache
                 ELSE LET result == SummaryFromContent(entry.key, entry.items, resp.content)
                      IN /\ cache' = setCache(cache, GroupCacheKey(entry), result)
                         /\ worker' = [worker EXCEPT ![r][w] =
                                Settle([rec EXCEPT !.last = resp.status], TRUE, result, "")]
            ELSE IF IsRetryable(resp.status)
            THEN /\ \E hdr \in retryAfters : \E jit \in jitters :
                      worker' = [worker EXCEPT ![r][w] =
                        [rec EXCEPT !.st = "sleep", !.last = resp.status,
                                    !.hdr = hdr, !.jit = jit,
                                    !.wait = SleepMs(hdr, rec.attempt, jit)]]
                 /\ UNCHANGED cache
            ELSE /\ worker' = [worker EXCEPT ![r][w] =
                        Settle([rec EXCEPT !.last = resp.status], FALSE, NoSummary,
                               StatusMessage(resp.status))]
                 /\ UNCHANGED cache
    /\ UNCHANGED <<configVars, fetches, pc, pool, index, results, homeworks, ret,
                   invoked, claimedBy, late, csvVars, tagVars>>

HasAttemptsLeftOffByOne(attempt) == attempt <= maxAttempts + 1

\* the loop test `attempt <= maxAttempts`
HasAttemptsLeft(attempt) == attempt <= maxAttempts

\* the backoff sleep ends: attempt += 1, then the loop test
Wake(r, w) ==
    /\ worker[r][w].st = "sleep"
    /\ LET rec == worker[r][w]
       IN IF HasAttemptsLeft(rec.attempt + 1)
          THEN /\ worker' = [worker EXCEPT ![r][w] =
                      [rec EXCEPT !.st = "fetch", !.attempt = rec.attempt + 1,
                                  !.sent = rec.sent + 1,
                                  !.hdr = NoRetryAfter, !.jit = 0, !.wait = 0]]
               /\ fetches' = [fetches EXCEPT ![r] = @ + 1]
          ELSE /\ worker' = [worker EXCEPT ![r][w] =
                      Settle([rec EXCEPT !.attempt = rec.attempt + 1,
                                         !.hdr = NoRetryAfter, !.jit = 0, !.wait = 0],
                             FALSE, NoSummary,
                             "OpenAI retries exhausted (429/5xx).")]
               /\ UNCHANGED fetches
    /\ UNCHANGED <<configVars, cache, pc, pool, index, results, homeworks, ret,
                   invoked, claimedBy, late, csvVars, tagVars>>

(***************************************************************************)
(* worker(): the continuation after `await fn(items[current])`.            *)
(***************************************************************************)
\* a worker that returns once the pool has failed
WorkerStopsAfterFailure(r) == pc[r] # "done"

\* `while (true)`: a worker loops whatever happened to the other workers
WorkerContinues(r) == TRUE

NextIndexStale(current) == current

\* `index += 1` after `const current = index`
NextIndex(current) == current + 1

Resume(r, w) ==
    /\ worker[r][w].st = "settled"
    /\ LET rec == worker[r][w]
           items == PoolItems(pool[r])
           current == index[r]
       IN IF ~rec.ok
          THEN \* the worker's promise rejects; Promise.all rejects on the first
               \* rejection and buildGroupedAIPerspective catches it
               /\ worker' = [worker EXCEPT ![r][w].st = "failed"]
               /\ IF pc[r] = pool[r]
                  THEN /\ ret' = [ret EXCEPT ![r] = Fallback(rec.err)]
                       /\ pc' = [pc EXCEPT ![r] = "done"]
                  ELSE UNCHANGED <<ret, pc>>
               /\ UNCHANGED <<index, results, fetches, invoked, claimedBy, late>>
          ELSE /\ results' = [results EXCEPT ![r][rec.cur + 1] = rec.out]
               /\ index' = [index EXCEPT ![r] = NextIndex(current)]
               /\ IF current >= Len(items) \/ ~WorkerContinues(r)
                  THEN /\ worker' = [worker EXCEPT ![r][w].st = "done"]
                       /\ UNCHANGED <<fetches, invoked, claimedBy, late>>
                  ELSE LET next == StartCall(items[current + 1], current, cache)
                       IN /\ worker' = [worker EXCEPT ![r][w] = next]
                          /\ fetches' = [fetches EXCEPT ![r] = @ + (IF next.st = "fetch" THEN 1 ELSE 0)]
                          /\ invoked' = [invoked EXCEPT ![r][pool[r]][current + 1] = @ + 1]
                          /\ claimedBy' = [claimedBy EXCEPT
                                              ![r][pool[r]][current + 1] = @ \cup {w}]
                          /\ late' = [late EXCEPT ![r] =
                                        IF pc[r] = "done" THEN @ \cup {current + 1} ELSE @]
               /\ UNCHANGED <<ret, pc>>
    /\ UNCHANGED <<configVars, cache, pool, homeworks, csvVars, tagVars>>

(***************************************************************************)
(* `await Promise.all(workers)` resolves: every worker returned.           *)
(***************************************************************************)
PoolResolve(r) ==
    /\ pc[r] \in {"homeworks", "models"}
    /\ pc[r] = pool[r]
    /\ \A w \in Workers : worker[r][w].st \in {"off", "done"}
    /\ IF pc[r] = "homeworks"
       THEN /\ homeworks' = [homeworks EXCEPT ![r] = results[r]]
            /\ LaunchPool(r, "models")
            /\ pc' = [pc EXCEPT ![r] = "models"]
            /\ UNCHANGED ret
       ELSE /\ ret' = [ret EXCEPT ![r] =
                  mergeGroupPerspectives(
                      buildHeuristicGroupedPerspective(threads, "Heuristic baseline."),
                      EnhancedOf(homeworks[r], results[r]))]
            /\ pc' = [pc EXCEPT ![r] = "done"]
            /\ UNCHANGED <<pool, index, results, worker, fetches, homeworks,
                           invoked, claimedBy, late>>
    /\ UNCHANGED <<configVars, cache, csvVars, tagVars>>

(***************************************************************************)
(* Inputs: post lists over a small universe of posts with distinct ids.    *)
(***************************************************************************)
W(word) == <<"word", word>>

PostUniverse ==
    { Post("p1", <<W("alpha")>>, <<W("body")>>, <<Tag("hw", "1"), Tag("base_model", "claude")>>),
      Post("p3", << <<"assignment", "2">> >>, <<W("claude"), W("gemini")>>, <<>>),
      Post("p4", <<W("delta")>>, << <<"hw", "2">>, W("gemini"), W("anthropic") >>, <<>>) }

RECURSIVE DistinctSeqs(_, _)
DistinctSeqs(S, n) ==
    IF n = 0 THEN {<<>>}
    ELSE LET shorter == DistinctSeqs(S, n - 1)
         IN shorter \cup
            {Append(e[1], e[2]) :
                e \in {f \in shorter \X S : Len(f[1]) = n - 1 /\ f[2] \notin Range(f[1])}}

ThreadInputs == DistinctSeqs(PostUniverse, MaxThreads)

InitRequests ==
    /\ cache = {}
    /\ fetches = [r \in Requests |-> 0]
    /\ pc = [r \in Requests |-> "idle"]
    /\ pool = [r \in Requests |-> "none"]
    /\ index = [r \in Requests |-> 0]
    /\ results = [r \in Requests |-> <<>>]
    /\ worker = [r \in Requests |-> [w \in Workers |-> IdleWorker]]
    /\ homeworks = [r \in Requests |-> <<>>]
    /\ ret = [r \in Requests |-> NoPerspective]
    /\ invoked = [r \in Requests |-> [homeworks |-> <<>>, models |-> <<>>]]
    /\ claimedBy = [r \in Requests |-> [homeworks |-> <<>>, models |-> <<>>]]
    /\ late = [r \in Requests |-> {}]

Init ==
    /\ threads \in ThreadInputs
    /\ apiKey \in BOOLEAN
    /\ maxGroups \in {0, 1, DefaultGroupMax}
    /\ concurrency \in {Max(1, env) : env \in 0..MaxConc}
    /\ maxAttempts \in {Max(1, env) : env \in 0..MaxAttemptsCfg}
    /\ statuses = {200, 404, 429}
    /\ retryAfters = {NoRetryAfter}
    /\ jitters = {0}
    /\ slots = 1
    /\ InitRequests
    /\ CsvIdle
    /\ TagIdle

Next ==
    \E r \in Requests :
        \/ Begin(r)
        \/ PoolResolve(r)
        \/ \E w \in Workers : Respond(r, w)
        \/ \E w \in Workers : Wake(r, w)
        \/ \E w \in Workers : Resume(r, w)

vars == allVars

Spec == Init /\ [][Next]_vars

(***************************************************************************)
(* SpecRetry: one bucket, one worker, every attempt limit up to one past   *)
(* the default, and statuses on both sides of each status test.            *)
(***************************************************************************)
P1 == CHOOSE p \in PostUniverse : p.id = "p1"

InitRetry ==
    /\ threads = <<P1>>
    /\ apiKey = TRUE
    /\ maxGroups = DefaultGroupMax
    /\ concurrency = 1
    /\ maxAttempts \in {Max(1, env) : env \in 0..(DefaultMaxAttempts + 1)}
    /\ statuses = {200, 299, 300, 404, 429, 499, 500, 599, 600}
    /\ retryAfters = {NoRetryAfter}
    /\ jitters = {0}
    /\ slots = 1
    /\ InitRequests
    /\ CsvIdle
    /\ TagIdle

SpecRetry == InitRetry /\ [][Next]_vars

(***************************************************************************)
(* SpecBackoff: one bucket, one worker, attempt limits up to the attempt   *)
(* whose backoff passes the cap, retry-after headers of each form, and the *)
(* least and the greatest jitter.                                          *)
(***************************************************************************)
RetryAfterChoices ==
    {NoRetryAfter, RetryAfterSeconds(1), RetryAfterSeconds(60), RetryAfterDate(1)}

JitterChoices == {0, JitterMaxMs - 1}

InitBackoff ==
    /\ threads = <<P1>>
    /\ apiKey = TRUE
    /\ maxGroups = DefaultGroupMax
    /\ concurrency = 1
    /\ maxAttempts \in {Max(1, env) : env \in 0..MaxBackoffAttempts}
    /\ statuses = {200, 429, 503}
    /\ retryAfters = RetryAfterChoices
    /\ jitters = JitterChoices
    /\ slots = 1
    /\ InitRequests
    /\ CsvIdle
    /\ TagIdle

SpecBackoff == InitBackoff /\ [][Next]_vars

(***************************************************************************)
(* SpecOverlap: renders of the same one-bucket post list that may overlap. *)
(***************************************************************************)
InitOverlap ==
    /\ threads = <<P1>>
    /\ apiKey = TRUE
    /\ maxGroups = DefaultGroupMax
    /\ concurrency = 1
    /\ maxAttempts = 1
    /\ statuses = {200, 404, 429}
    /\ retryAfters = {NoRetryAfter}
    /\ jitters = {0}
    /\ slots \in 1..MaxRequests
    /\ InitRequests
    /\ CsvIdle
    /\ TagIdle

SpecOverlap == InitOverlap /\ [][Next]_vars

(***************************************************************************)
(* SpecPool: post lists that give 0..MaxPoolItems homework buckets of one  *)
(* post each and no model bucket, so that the pools hold fewer, as many    *)
(* and more items than there are workers.                                  *)
(***************************************************************************)
PoolPost(i) ==
    Post("h" \o ToString(i), <<W("topic")>>, <<W("body")>>, <<Tag("hw", ToString(i))>>)

PoolThreads(n) == [i \in 1..n |-> PoolPost(i)]

InitPool ==
    /\ threads \in {PoolThreads(n) : n \in 0..MaxPoolItems}
    /\ apiKey = TRUE
    /\ maxGroups = DefaultGroupMax
    /\ concurrency \in {Max(1, env) : env \in 0..MaxConc}
    /\ maxAttempts = 1
    /\ statuses = {200, 429}
    /\ retryAfters = {NoRetryAfter}
    /\ jitters = {0}
    /\ slots = 1
    /\ InitRequests
    /\ CsvIdle
    /\ TagIdle

SpecPool == InitPool /\ [][Next]_vars

(***************************************************************************)
(* fetchCsvPosts as an action, and the ingestion specification.           *)
(***************************************************************************)
\* fetchCsvPosts(), start to return
LoadPosts ==
    /\ csvPc = "idle"
    /\ csvRows' = IF csvFile.readable THEN parseCsv(csvFile.text) ELSE <<>>
    /\ csvRecords' = IF csvFile.readable /\ parseCsv(csvFile.text) # <<>>
                     THEN RecordsOf(parseCsv(csvFile.text)) ELSE <<>>
    /\ csvOut' = fetchCsvPosts(csvFile)
    /\ csvPc' = "done"
    /\ UNCHANGED <<csvSource, csvFile, aiVars, tagVars>>

AiIdle ==
    /\ threads = <<>>
    /\ apiKey = FALSE
    /\ maxGroups = DefaultGroupMax
    /\ concurrency = DefaultConcurrency
    /\ maxAttempts = DefaultMaxAttempts
    /\ statuses = {}
    /\ retryAfters = {NoRetryAfter}
    /\ jitters = {0}
    /\ slots = 0
    /\ InitRequests

InitCsv ==
    /\ csvSource \in CsvSources
    /\ csvFile = FileOf(csvSource)
    /\ csvPc = "idle"
    /\ csvRows = <<>>
    /\ csvRecords = <<>>
    /\ csvOut = NoCsvResult
    /\ AiIdle
    /\ TagIdle

NextCsv == LoadPosts

SpecCsv == InitCsv /\ [][NextCsv]_allVars

(***************************************************************************)
(* The overview as a state machine: one call of buildAIPerspective.        *)
(***************************************************************************)
\* buildAIPerspective(filtered), start to return
BuildOverview ==
    /\ tagPc = "idle"
    /\ tagCounts' = IF Len(tagThreads) = 0 THEN <<>> ELSE CountThreads(tagThreads)
    /\ tagOut' = buildAIPerspective(tagThreads)
    /\ tagPc' = "done"
    /\ UNCHANGED <<tagThreads, aiVars, csvVars>>

InitTags ==
    /\ tagThreads \in TagInputs
    /\ tagPc = "idle"
    /\ tagCounts = <<>>
    /\ tagOut = NoOverall
    /\ AiIdle
    /\ CsvIdle

NextTags == BuildOverview

SpecTags == InitTags /\ [][NextTags]_allVars

(***************************************************************************)
(* Properties.                                                             *)
(***************************************************************************)
PoolNames == {"homeworks", "models"}

\* the pool over `name` of request r has resolved, and its results are still held
PoolResolved(r, name) ==
    IF name = "homeworks"
    THEN pc[r] = "models" \/ (pc[r] = "done" /\ pool[r] = "models")
    ELSE pc[r] = "done" /\ pool[r] = "models" /\ ret[r].mode = "llm"

PoolResults(r, name) == IF name = "homeworks" THEN homeworks[r] ELSE results[r]

\* result is what summarizeGroup yields for this bucket under some reply
ComputedFrom(result, entry) ==
    \E c \in ModelReplies(SampleOf(entry.items)) :
        result = SummaryFromContent(entry.key, entry.items, c)

\* C1: in every pool run no item index is ever claimed by two workers or handed
\* to the item function twice, and once the pool has resolved every item was
\* claimed by exactly one worker, the item function was called exactly once for
\* it, and results[i] is the summary computed from items[i].
C1_PoolExactlyOnce ==
    \A r \in Requests : \A name \in PoolNames :
        LET items == PoolItems(name)
            res == PoolResults(r, name)
        IN /\ \A i \in 1..Len(invoked[r][name]) :
                /\ invoked[r][name][i] <= 1
                /\ Cardinality(claimedBy[r][name][i]) <= 1
           /\ PoolResolved(r, name) =>
                /\ Len(res) = Len(items)
                /\ Len(invoked[r][name]) = Len(items)
                /\ \A i \in 1..Len(items) :
                    /\ invoked[r][name][i] = 1
                    /\ Cardinality(claimedBy[r][name][i]) = 1
                    /\ ComputedFrom(res[i], items[i])

\* a resolved pool of two or more workers and more items than workers, whose
\* last item was claimed by a worker other than the first after it had
\* finished an earlier item
C1_Witness ==
    \E r \in Requests :
        /\ PoolResolved(r, "homeworks")
        /\ concurrency >= 2
        /\ Len(HomeworkEntries) > concurrency
        /\ \E w \in Workers :
            w >= 2 /\ claimedBy[r]["homeworks"][Len(HomeworkEntries)] = {w}

SummaryKeys(summaries) == [i \in 1..Len(summaries) |-> summaries[i].key]

NoRepeats(seq) == \A i, j \in 1..Len(seq) : i # j => seq[i] # seq[j]

CoversBuckets(summaries, groups) ==
    /\ NoRepeats(SummaryKeys(summaries))
    /\ Range(SummaryKeys(summaries)) = MapKeys(groups)

HasFailedWorker(r) == \E w \in Workers : worker[r][w].st = "failed"

\* C3: a failed remote call never leaves buildGroupedAIPerspective without a
\* result: whenever a worker has failed the call has returned, every returned
\* perspective holds exactly one summary per homework bucket and per retained
\* model bucket of groupThreads, and after a failure its note is "OpenAI
\* failed: " followed by the message of a failed call.
C3_AlwaysCompleteResult ==
    \A r \in Requests :
        /\ HasFailedWorker(r) => pc[r] = "done"
        /\ pc[r] = "done" =>
            /\ ret[r].mode \in {"llm", "heuristic"}
            /\ CoversBuckets(ret[r].homeworks, groupThreads(threads).homeworkGroups)
            /\ CoversBuckets(ret[r].models, groupThreads(threads).modelGroups)
            /\ HasFailedWorker(r) =>
                \E w \in Workers :
                    /\ worker[r][w].st = "failed"
                    /\ worker[r][w].err # ""
                    /\ ret[r].note = "OpenAI failed: " \o worker[r][w].err

\* a render that returned after a remote call failed, with buckets to show
C3_Witness ==
    \E r \in Requests :
        /\ pc[r] = "done"
        /\ HasFailedWorker(r)
        /\ ret[r].homeworks # <<>>
        /\ ret[r].models # <<>>

Transient(status) == status = 429 \/ status \in 500..599

ExhaustedMessage == "OpenAI retries exhausted (429/5xx)."

C4_State ==
    \A r \in Requests : \A w \in Workers :
        LET rec == worker[r][w]
        IN /\ rec.sent <= maxAttempts
           /\ rec.st = "fetch" /\ rec.sent > 1 => Transient(rec.last)
           /\ rec.st \in {"settled", "failed"} /\ Transient(rec.last) =>
                /\ rec.sent = maxAttempts
                /\ ~rec.ok
                /\ rec.err = ExhaustedMessage
           /\ rec.st \in {"settled", "failed"} /\ rec.last # 0
                /\ ~Transient(rec.last) /\ rec.last \notin 200..299 =>
                /\ ~rec.ok
                /\ rec.err = "OpenAI responded with " \o ToString(rec.last)

C4_Step ==
    \A r \in Requests : \A w \in Workers :
        worker'[r][w].sent > 1 /\ worker'[r][w].sent # worker[r][w].sent =>
            /\ worker[r][w].st = "sleep"
            /\ Transient(worker[r][w].last)
            /\ worker'[r][w].sent = worker[r][w].sent + 1

\* C4: within one call of openaiChatCompletion a request after the first is
\* issued only out of the backoff that follows a 429 or 5xx response; the call
\* never issues more requests than the attempt limit; a call whose last
\* response was 429/5xx has used the whole limit and ended with the "retries
\* exhausted" error; a call that received any other non-2xx status ended with
\* the error naming that status.
C4_BoundedRetries == []C4_State /\ [][C4_Step]_vars

\* a call under the default limit that used all five attempts and was rejected
C4_Witness ==
    \E r \in Requests : \E w \in Workers :
        /\ maxAttempts = DefaultMaxAttempts
        /\ worker[r][w].sent = DefaultMaxAttempts
        /\ worker[r][w].err = ExhaustedMessage

\* C5: without a credential no request ever issues a fetch or starts a worker,
\* and every returned perspective has mode "heuristic".
C5_NoKeyNoNetwork ==
    ~apiKey =>
        \A r \in Requests :
            /\ fetches[r] = 0
            /\ \A w \in Workers : worker[r][w].st = "off"
            /\ pc[r] \in {"idle", "done"}
            /\ pc[r] = "done" => ret[r].mode = "heuristic"

\* a render without credential that returned buckets
C5_Witness ==
    /\ ~apiKey
    /\ \E r \in Requests : pc[r] = "done" /\ ret[r].homeworks # <<>> /\ ret[r].models # <<>>

SampleIds(entry) == {SampleOf(entry.items)[i].id : i \in 1..Len(SampleOf(entry.items))}

SummaryIds(summary) == {summary.posts[i].id : i \in 1..Len(summary.posts)}

\* C6 (as claimed): every remotely computed summary in a pool's results lists
\* every post of the sample sent for its bucket and has at most as many
\* entries as the sample.
C6_CoversSample ==
    \A r \in Requests : \A w \in Workers :
        LET rec == worker[r][w]
        IN rec.st = "settled" /\ rec.ok =>
            LET entry == PoolItems(pool[r])[rec.cur + 1]
            IN /\ SampleIds(entry) \subseteq SummaryIds(rec.out)
               /\ Len(rec.out.posts) <= Len(SampleOf(entry.items))

Baseline == buildHeuristicGroupedPerspective(threads, "Heuristic baseline.")

SelectedKeys == MapKeys(HomeworkEntries) \cup MapKeys(ModelEntries)

MergedLike(merged, base, enhanced) ==
    /\ SummaryKeys(merged) = SummaryKeys(base)
    /\ \A i \in 1..Len(base) :
        IF base[i].key \in SelectedKeys
        THEN \E j \in 1..Len(enhanced) :
                enhanced[j].key = base[i].key /\ merged[i] = enhanced[j]
        ELSE merged[i] = base[i]

\* C7: a merged result lists exactly the baseline's keys in the baseline's
\* order; a bucket outside the top-N selection is the baseline's heuristic
\* summary unchanged, and a selected bucket is its remote summary.
C7_MergeKeepsBaseline ==
    \A r \in Requests :
        pc[r] = "done" /\ ret[r].mode = "llm" =>
            /\ MergedLike(ret[r].homeworks, Baseline.homeworks,
                          IF maxGroups <= 0 THEN <<>> ELSE homeworks[r])
            /\ MergedLike(ret[r].models, Baseline.models,
                          IF maxGroups <= 0 THEN <<>> ELSE results[r])
            /\ ret[r].note = Baseline.note

\* a merged result with one bucket replaced and another left heuristic
C7_Witness ==
    \E r \in Requests :
        /\ pc[r] = "done" /\ ret[r].mode = "llm"
        /\ \E i, j \in 1..Len(ret[r].homeworks) :
            /\ ret[r].homeworks[i] # Baseline.homeworks[i]
            /\ Baseline.homeworks[j].key \notin SelectedKeys
            /\ ret[r].homeworks[j] = Baseline.homeworks[j]

\* C2 (as claimed): renders whose summarizeGroup calls have the same cache key
\* and that both returned a remote result issued at most one fetch in total.
C2_SingleFetchPerKey ==
    \A r1, r2 \in Requests :
        /\ r1 # r2
        /\ pc[r1] = "done" /\ ret[r1].mode = "llm"
        /\ pc[r2] = "done" /\ ret[r2].mode = "llm"
        => fetches[r1] + fetches[r2] <= 1

PostIds(posts) == [k \in 1..Len(posts) |-> posts[k].id]

\* the post made from data row i of a generated table is in the result
KeptRow(i) == \E k \in 1..Len(csvOut.threads) : csvOut.threads[k].title = RowTitle(i)

RowOfPost(post) == CHOOSE i \in 1..Len(csvSource.rows) : post.title = RowTitle(i)

InRowOrder(posts) ==
    \A k, l \in 1..Len(posts) : k < l => RowOfPost(posts[k]) < RowOfPost(posts[l])

\* C8 (as claimed): no two returned posts share an id; of the rows with the
\* same thread_id only the first is kept; the kept posts are in row order.
C8_FirstOfEachThreadId ==
    csvPc = "done" /\ csvSource.kind = "table" =>
        /\ NoRepeats(PostIds(csvOut.threads))
        /\ \A i, j \in 1..Len(csvSource.rows) :
            i < j /\ csvSource.rows[i] = csvSource.rows[j] => ~KeptRow(j)
        /\ InRowOrder(csvOut.threads)

\* C8 (amended): no two returned posts share an id; a row is dropped exactly
\* when an earlier row has the same thread_id after trimming and that id is
\* not empty (a row with an empty thread_id gets a fresh id and is kept); the
\* kept posts are in row order.
C8_FirstOfEachNonEmptyThreadId ==
    csvPc = "done" /\ csvSource.kind = "table" =>
        /\ NoRepeats(PostIds(csvOut.threads))
        /\ \A j \in 1..Len(csvSource.rows) :
            KeptRow(j) <=>
                ~\E i \in 1..(j - 1) :
                    /\ Trim(csvSource.rows[i]) = Trim(csvSource.rows[j])
                    /\ Trim(csvSource.rows[j]) # <<>>
        /\ InRowOrder(csvOut.threads)

\* a load that dropped a repeated thread_id and kept two rows without one
C8_Witness ==
    /\ csvPc = "done" /\ csvSource.kind = "table"
    /\ \E i, j \in 1..Len(csvSource.rows) :
        i < j /\ csvSource.rows[i] = <<"t1">> /\ csvSource.rows[j] = <<"t1">> /\ ~KeptRow(j)
    /\ \E i \in 1..Len(csvSource.rows) : csvSource.rows[i] = <<>> /\ KeptRow(i)

\* C9: fetchCsvPosts returns and never throws; when the file cannot be read
\* the result is no posts and the "Failed to read CSV" warning; when the file
\* parses to no rows the result is no posts and the "CSV file is empty."
\* warning.
C9_NeverThrows ==
    csvPc = "done" =>
        /\ ~csvOut.threw
        /\ ~csvFile.readable =>
            csvOut.threads = <<>> /\ csvOut.warning = "Failed to read CSV"
        /\ csvFile.readable /\ csvRows = <<>> =>
            csvOut.threads = <<>> /\ csvOut.warning = "CSV file is empty."

\* a load of an unreadable file that has returned
C9_Witness == csvPc = "done" /\ ~csvFile.readable /\ csvOut.warning # Null

ExpectedQuotedRows(src) ==
    << (IF src.before THEN << <<"x">> >> ELSE <<>>)
       \o <<src.content>>
       \o (IF src.after THEN << <<"y">> >> ELSE <<>>) >>
    \o (IF src.tail = <<LF, "z">> THEN << << <<"z">> >> >> ELSE <<>>)

\* C10: a field written in double quotes, with its quotes doubled, parses to
\* exactly one field equal to the written content, whatever commas, line
\* breaks and quotes the content holds and whatever unquoted fields or line
\* break surround it.
C10_QuotedFieldLiteral ==
    csvPc = "done" /\ csvSource.kind = "quoted" =>
        csvRows = ExpectedQuotedRows(csvSource)

\* a parsed quoted field whose content holds a comma, a line break and a quote
C10_Witness ==
    /\ csvPc = "done" /\ csvSource.kind = "quoted"
    /\ {COMMA, LF, DQ} \subseteq Range(csvSource.content)
    /\ csvSource.before /\ csvSource.after
    /\ csvRows = ExpectedQuotedRows(csvSource)

(***************************************************************************)
(* Rows of a text without quotes, by splitting: first into lines at "\n",  *)
(* "\r" and "\r\n", then each line into fields at the commas.              *)
(***************************************************************************)
FirstIndexOf(text, chars) ==
    CHOOSE i \in 1..Len(text) : text[i] \in chars /\ \A j \in 1..(i - 1) : text[j] \notin chars

RECURSIVE SplitFields(_)
SplitFields(line) ==
    IF COMMA \notin Range(line) THEN <<line>>
    ELSE LET i == FirstIndexOf(line, {COMMA})
         IN <<SubSeq(line, 1, i - 1)>> \o SplitFields(SubSeq(line, i + 1, Len(line)))

RECURSIVE SplitLines(_)
SplitLines(text) ==
    IF Range(text) \cap {LF, CR} = {} THEN <<text>>
    ELSE LET i == FirstIndexOf(text, {LF, CR})
             skip == IF text[i] = CR /\ i < Len(text) /\ text[i + 1] = LF THEN 2 ELSE 1
         IN <<SubSeq(text, 1, i - 1)>> \o SplitLines(SubSeq(text, i + skip, Len(text)))

NotAllEmpty(row) == \E k \in 1..Len(row) : row[k] # <<>>

ExpectedPlainRows(text) ==
    LET lines == SplitLines(text)
    IN SelectSeq([l \in 1..Len(lines) |-> SplitFields(lines[l])], NotAllEmpty)

\* C11: no row returned by parseCsv has only empty fields, whatever the input
\* text; for a text without quotes the rows are exactly its lines that hold a
\* non-empty field, in order, so that blank lines (ended by "\n", "\r\n" or the
\* end of the text) give no row and a last line without line break gives one.
C11_NoEmptyRows ==
    csvPc = "done" /\ csvFile.readable =>
        /\ \A k \in 1..Len(csvRows) : NotAllEmpty(csvRows[k])
        /\ DQ \notin Range(csvFile.text) => csvRows = ExpectedPlainRows(csvFile.text)

\* a parsed text with a blank line between two rows and no final line break
C11_Witness ==
    /\ csvPc = "done"
    /\ csvFile.text = <<"a", LF, LF, "a">>
    /\ csvRows = << << <<"a">> >>, << <<"a">> >> >>

NamedColumns(header) == {i \in 1..Len(header) : header[i] # <<>>}

\* C12 (as claimed): the record of a row shorter than the header has no key
\* for the columns the row lacks, and no key but header names.
C12_ShortRowKeysAbsent ==
    csvPc = "done" /\ csvSource.kind = "ragged" =>
        LET header == csvSource.content
            row == csvSource.rows
            record == csvRecords[1]
        IN /\ Len(csvRecords) = 1
           /\ DOMAIN record \subseteq {header[i] : i \in NamedColumns(header)}
           /\ \A i \in NamedColumns(header) : i > Len(row) => header[i] \notin DOMAIN record

\* C12 (amended): the record of a data row has exactly the non-empty header
\* names as keys; the key of column i holds field i of the row, and the empty
\* text when the row is shorter than i; fields beyond the header are in no
\* key.
C12_ShortRowKeysEmpty ==
    csvPc = "done" /\ csvSource.kind = "ragged" =>
        LET header == csvSource.content
            row == csvSource.rows
            record == csvRecords[1]
        IN /\ Len(csvRecords) = 1
           /\ DOMAIN record = {header[i] : i \in NamedColumns(header)}
           /\ \A i \in NamedColumns(header) :
                record[header[i]] = IF i <= Len(row) THEN row[i] ELSE <<>>

\* a loaded row of one field under a header of three names
C12_Witness ==
    /\ csvPc = "done" /\ csvSource.kind = "ragged"
    /\ Len(csvSource.content) = 3 /\ Len(csvSource.rows) = 1
    /\ Len(csvRecords) = 1
    /\ <<"text">> \in DOMAIN csvRecords[1]
    /\ csvRecords[1][<<"text">>] = <<>>

\* the model keys one post is collected under, and the homework key
ModelKeysOf(thread) ==
    IF HasTag(thread.tags, "base_model")
    THEN {FindTag(thread.tags, "base_model")} \ {Null}
    ELSE Range(detectModels(ThreadText(thread)))

HomeworkKeyOf(thread) ==
    IF HasTag(thread.tags, "hw") THEN FindTag(thread.tags, "hw")
    ELSE detectHomework(ThreadText(thread))

CollectedByModel(key) == {i \in 1..Len(threads) : key \in ModelKeysOf(threads[i])}
CollectedByHomework(key) == {i \in 1..Len(threads) : HomeworkKeyOf(threads[i]) = key}

AllModelKeys == UNION {ModelKeysOf(threads[i]) : i \in 1..Len(threads)}
AllHomeworkKeys == {HomeworkKeyOf(threads[i]) : i \in 1..Len(threads)} \ {Null}

BucketSizes(map) == {<<map[i].key[2], Len(map[i].items)>> : i \in 1..Len(map)}
SummarySizes(summaries) == {<<summaries[i].key[2], summaries[i].count>> : i \in 1..Len(summaries)}

\* C13: the model buckets of groupThreads are exactly the model keys that
\* collected at least 2 posts, each with all its posts (a key that collected
\* exactly 1 post has no bucket); the homework buckets are all homework keys
\* that collected a post, those of size 1 included; and every returned
\* perspective shows exactly these buckets.
C13_ModelBucketsAtLeastTwo ==
    LET g == groupThreads(threads)
        modelSizes == {<<k, Cardinality(CollectedByModel(k))>> :
                      k \in {m \in AllModelKeys : Cardinality(CollectedByModel(m)) >= 2}}
        homeworkSizes == {<<k, Cardinality(CollectedByHomework(k))>> : k \in AllHomeworkKeys}
    IN /\ BucketSizes(g.modelGroups) = modelSizes
       /\ BucketSizes(g.homeworkGroups) = homeworkSizes
       /\ \A i \in 1..Len(g.modelGroups) : Len(g.modelGroups[i].items) >= 2
       /\ \A r \in Requests : pc[r] = "done" =>
            /\ SummarySizes(ret[r].models) = modelSizes
            /\ SummarySizes(ret[r].homeworks) = homeworkSizes

\* a returned perspective over posts where one model collected two posts,
\* another exactly one, and a homework exactly one
C13_Witness ==
    \E r \in Requests :
        /\ pc[r] = "done"
        /\ Cardinality(CollectedByModel("claude")) = 2
        /\ Cardinality(CollectedByModel("gemini")) = 1
        /\ SummarySizes(ret[r].models) = {<<"claude", 2>>}
        /\ <<"1", 1>> \in SummarySizes(ret[r].homeworks)

RECURSIVE SumCounts(_)
SumCounts(counts) ==
    IF counts = <<>> THEN 0 ELSE counts[1].count + SumCounts(Tail(counts))

CountOf(counts, key) ==
    LET S == {i \in 1..Len(counts) : counts[i].tag = key}
    IN IF S = {} THEN 0 ELSE counts[FirstOf(S)].count

HasNoTags(post) == ~post.hasTags \/ post.tags = <<>>

\* C14: in buildHeuristicPerspective every post without tags, its tag list
\* undefined or empty, is counted under "untagged", so the count of
\* "untagged" is at least the number of such posts and the counts sum to at
\* least the number of posts.
C14_UntaggedCounted ==
    tagPc = "done" /\ Len(tagThreads) > 0 =>
        /\ CountOf(tagCounts, Untagged) >=
              Cardinality({i \in 1..Len(tagThreads) : HasNoTags(tagThreads[i])})
        /\ SumCounts(tagCounts) >= Len(tagThreads)


\* the calls of openaiChatCompletion of request r that have not settled:
\* a fetch is in flight, or the call sleeps between two attempts
InFlight(r) == {w \in Workers : worker[r][w].st \in {"fetch", "sleep"}}

\* C15: during a call of buildGroupedAIPerspective the number of remote
\* calls in flight never exceeds the configured concurrency, for any number
\* of buckets and any order of completion; nor does the number of workers
\* that were started.
C15_InFlightBounded ==
    \A r \in Requests :
        /\ Cardinality(InFlight(r)) <= concurrency
        /\ Cardinality({w \in Workers : worker[r][w].st # "off"}) <= concurrency

\* the default concurrency of 2 with three buckets: two remote calls in
\* flight and a bucket still unclaimed, after an earlier call completed
C15_Witness ==
    \E r \in Requests :
        /\ concurrency = DefaultConcurrency
        /\ pc[r] = "homeworks"
        /\ Len(HomeworkEntries) = 3
        /\ Cardinality(InFlight(r)) = 2
        /\ index[r] = 3
        /\ \E i \in 1..2 : results[r][i] # NoSummary

\* C16 (as claimed): the wait before a retry is the retry-after value when
\* the 429/5xx response carries the header, otherwise 600 ms doubled per
\* earlier attempt plus the jitter; it is a number of at most 30 000 ms.
C16_WaitHonorsRetryAfter ==
    \A r \in Requests : \A w \in Workers :
        LET rec == worker[r][w]
        IN rec.st = "sleep" =>
            /\ rec.hdr.kind # "absent" => rec.wait = rec.hdr.s * 1000
            /\ rec.hdr.kind = "absent" =>
                  rec.wait = Min(BackoffCapMs, BackoffBaseMs * Pow2(rec.attempt - 1) + rec.jit)
            /\ rec.wait # NaN
            /\ rec.wait <= BackoffCapMs

Undispatched(r) ==
    {i \in 1..Len(invoked[r][pool[r]]) : invoked[r][pool[r]][i] = 0}

FailsNow(r, w) == worker[r][w].st # "failed" /\ worker'[r][w].st = "failed"

\* a rejection stops the worker that ran the item and nothing else, and the
\* call returns in that very step
C17_FailureStep ==
    \A r \in Requests : \A w \in Workers :
        FailsNow(r, w) =>
            /\ worker[r][w].st = "settled" /\ ~worker[r][w].ok
            /\ \A v \in Workers \ {w} : worker'[r][v] = worker[r][v]
            /\ index'[r] = index[r] /\ invoked'[r] = invoked[r]
            /\ pc'[r] = "done" /\ ret'[r].mode = "heuristic"

\* a worker whose item succeeded claims the next unclaimed item and calls
\* the item function for it, also when the call has already returned
C17_ClaimStep ==
    \A r \in Requests : \A w \in Workers :
        /\ worker[r][w].st = "settled" /\ worker[r][w].ok
        /\ worker'[r][w] # worker[r][w]
        /\ index[r] < Len(PoolItems(pool[r]))
        => /\ worker'[r][w].st \in {"fetch", "settled"}
           /\ worker'[r][w].cur = index[r]
           /\ index[r] + 1 \in Undispatched(r)
           /\ invoked'[r][pool[r]][index[r] + 1] = 1
           /\ pc[r] = "done" => index[r] + 1 \in late'[r]

\* a worker returns only when no item is unclaimed, so an item stays
\* undispatched only if every started worker failed
C17_State ==
    \A r \in Requests :
        pool[r] \in PoolNames /\ Undispatched(r) # {} =>
            /\ \A w \in Workers : worker[r][w].st # "done"
            /\ (\A w \in Workers : worker[r][w].st \in {"off", "failed"}) =>
                  \A w \in Workers : w <= WorkerCount(PoolItems(pool[r])) =>
                      worker[r][w].st = "failed"

\* C17: when the item function rejects for one item only the worker that ran
\* it stops and the pool's promise rejects in the same step; the other
\* workers go on claiming and dispatching the unclaimed items, also after the
\* call has returned; an item is left undispatched only when every worker
\* has failed.
C17_WorkersOutliveFailure == []C17_State /\ [][C17_FailureStep /\ C17_ClaimStep]_vars

\* a remote call in flight for an item that was dispatched after the call had
\* returned its fallback
C17_Witness ==
    \E r \in Requests : \E w \in Workers :
        /\ pc[r] = "done"
        /\ HasFailedWorker(r)
        /\ worker[r][w].st = "fetch"
        /\ worker[r][w].cur + 1 \in late[r]


SummariesOf(perspective) == Range(perspective.homeworks) \cup Range(perspective.models)

CachedSummaries == {e.v : e \in cache}

\* the summaries request r has obtained from its item function so far
Obtained(r) ==
    {[k |-> GroupCacheKey(PoolItems(pool[r])[i]), v |-> results[r][i]] :
        i \in {j \in 1..Len(results[r]) : results[r][j] # NoSummary}}
    \cup (IF pool[r] = "models"
          THEN {[k |-> GroupCacheKey(HomeworkEntries[i]), v |-> homeworks[r][i]] :
                   i \in 1..Len(homeworks[r])}
          ELSE {})

FailedKeys(r) ==
    {GroupCacheKey(PoolItems(pool[r])[worker[r][w].cur + 1]) :
        w \in {v \in Workers : worker[r][v].st = "failed"}}

C18_State ==
    \A r \in Requests :
        pc[r] = "done" /\ HasFailedWorker(r) =>
            /\ apiKey
            /\ ret[r].mode = "heuristic"
            /\ CoversBuckets(ret[r].homeworks, groupThreads(threads).homeworkGroups)
            /\ CoversBuckets(ret[r].models, groupThreads(threads).modelGroups)
            /\ \A summary \in SummariesOf(ret[r]) :
                /\ summary.overview.kind = "heuristic"
                /\ summary.overview.text = ret[r].note
                /\ summary \notin CachedSummaries
            /\ Obtained(r) \subseteq cache
            /\ \A k \in FailedKeys(r) : ~CacheHas(cache, k)

C18_Step == \A e \in cache : e \in cache'

====
